---- MODULE Spec2Model ----
(***************************************************************************)
(* A model of the bioregistry web API (src/bioregistry/app/api.py): the    *)
(* registry snapshot held by the manager, and one action per endpoint.     *)
(* Every handler is an operator from the snapshot and the request to the   *)
(* response (a returned value or a raised exception); the action of the    *)
(* same endpoint records the request and the response.  The module also    *)
(* models the OBO Foundry importer (src/bioregistry/external/obofoundry.py) *)
(* and the two files it keeps.                                             *)
(***************************************************************************)
EXTENDS Integers, Sequences, FiniteSets, TLC

VARIABLES
    registry,      \* manager.registry: the canonical records, in dict order
    metaregistry,  \* manager.metaregistry: the keys of the external registries
    collections,   \* manager.collections: the collection identifiers
    call,          \* the request being answered: [op, args]
    response,      \* what the handler returned or raised for `call`
    prev,          \* the request and response before a follow-up request
    PROCESSED_PATH, \* the file obofoundry/processed.json
    RAW_PATH,      \* the file obofoundry/raw.yaml
    io             \* the downloads and writes the last call performed

snapshot == <<registry, metaregistry, collections>>
files == <<PROCESSED_PATH, RAW_PATH, io>>
vars == <<registry, metaregistry, collections, call, response, prev,
          PROCESSED_PATH, RAW_PATH, io>>

----------------------------------------------------------------------------
(* Bounds of the model. *)

\* number of canonical records in the registry
NumRecords == 2
\* number of distinct local identifiers an external registry may use
NumIds == 2

----------------------------------------------------------------------------
(* Python values. *)

\* Python's None
None == "None"

\* None where the code holds an object (a record here) and not a string
NoObject == [is_none |-> TRUE]

\* dict.get(key) on a dict of objects
GetObject(d, k) == IF k \in DOMAIN d THEN d[k] ELSE NoObject

\* Python truthiness of an Optional[str]: None and "" are falsy
Truthy(x) == x /= None /\ x /= ""

\* dict.get(key): the value, or None when the key is absent
Get(d, k) == IF k \in DOMAIN d THEN d[k] ELSE None

\* the empty dict
EmptyDict == [k \in {} |-> None]

\* d[k] = v on a dict: the last write to a key wins
Put(d, k, v) == [x \in DOMAIN d \cup {k} |-> IF x = k THEN v ELSE d[x]]

----------------------------------------------------------------------------
(* The values the registry snapshot is built from. *)

PrefixNames == <<"go", "doid", "chebi", "uberon">>
Prefixes == {PrefixNames[i] : i \in 1..NumRecords}

\* local identifiers of external registries, in the order sorted() gives them
IdNames == <<"ID1", "ID2", "ID3", "ID4">>
Ids == {IdNames[i] : i \in 1..NumIds}
Rank(id) == CHOOSE i \in 1..Len(IdNames) : IdNames[i] = id

\* the keys of the metaregistry, and the keys a request may name
MetaKeys == {"n2t", "miriam"}
KeyInputs == MetaKeys \cup {"nokey"}

\* Resource.get_mappings(): a dict from some external keys to local identifiers
MappingDicts == UNION {[S -> Ids] : S \in SUBSET MetaKeys}

\* a canonical record (bioregistry.Resource), with what the API reads of it:
\* the mappings to external registries, the identifiers its pattern accepts
\* (None when it declares no pattern), its providers and its URI prefix
Resource(prefix, mappings, pattern, providers, uri_prefix) ==
    [prefix |-> prefix, mappings |-> mappings, pattern |-> pattern,
     providers |-> providers, uri_prefix |-> uri_prefix]

\* Resource.get_mappings()
get_mappings(resource) == resource.mappings

----------------------------------------------------------------------------
(* Requests and responses. *)

Call(op, args) == [op |-> op, args |-> args]
NoCall == Call("none", <<>>)

\* a handler returned `value`, an object (a record here)
Return(value) == [value |-> value, kind |-> "return"]
\* a function returned the string `str`
ReturnStr(str) == [kind |-> "return", str |-> str]
\* the Python pair (first, second)
Pair(first, second) == [first |-> first, second |-> second]
\* a handler raised HTTPException(status_code, detail); the detail keeps the
\* f-string's fixed text and its interpolated values apart
HTTPException(status_code, detail) ==
    [kind |-> "raise", status_code |-> status_code, detail |-> detail,
     exc |-> "HTTPException"]
\* a handler raised NotImplementedError
NotImplementedError == [kind |-> "raise", exc |-> "NotImplementedError"]
NoResponse == [kind |-> "none"]

NoPrev == [call |-> NoCall, response |-> NoResponse]

\* a path no file is at, and a file with its content
NoFile == [exists |-> FALSE, content |-> <<>>]
File(content) == [exists |-> TRUE, content |-> content]
\* the web API reads and writes no file of the importer
NoFiles ==
    /\ PROCESSED_PATH = NoFile
    /\ RAW_PATH = NoFile
    /\ io = <<>>

\* the server answers request c with r; nothing of the snapshot is assigned
Request(c, r) ==
    /\ call' = c
    /\ response' = r
    /\ prev' = NoPrev
    /\ UNCHANGED snapshot
    /\ UNCHANGED files

\* the same, for a request the client derives from the one just answered
FollowUp(c, r) ==
    /\ call' = c
    /\ response' = r
    /\ prev' = [call |-> call, response |-> response]
    /\ UNCHANGED snapshot
    /\ UNCHANGED files

----------------------------------------------------------------------------
(* GET /api/metaregistry/{metaprefix}/mapping/{target} *)

\* sorted(set of local identifiers)
RECURSIVE Sorted(_)
Sorted(S) ==
    IF S = {} THEN <<>>
    ELSE LET m == CHOOSE x \in S : \A y \in S : Rank(x) <= Rank(y)
         IN  <<m>> \o Sorted(S \ {m})

\* the state of the loop: rv, source_only, target_only
OverlapStart == [rv |-> EmptyDict, source_only |-> {}, target_only |-> {}]

\* the body of the loop with rv.setdefault in place of rv[...] = ...: the
\* first record with a source identifier keeps it
OverlapStep_KeepFirst(acc, resource, metaprefix, target) ==
    LET mappings == get_mappings(resource)
        mp1_prefix == Get(mappings, metaprefix)
        mp2_prefix == Get(mappings, target)
    IN  IF Truthy(mp1_prefix) /\ Truthy(mp2_prefix)
        THEN IF mp1_prefix \in DOMAIN acc.rv THEN acc
             ELSE [acc EXCEPT !.rv = Put(acc.rv, mp1_prefix, mp2_prefix)]
        ELSE IF Truthy(mp1_prefix) /\ ~Truthy(mp2_prefix)
        THEN [acc EXCEPT !.source_only = @ \cup {mp1_prefix}]
        ELSE IF ~Truthy(mp1_prefix) /\ Truthy(mp2_prefix)
        THEN [acc EXCEPT !.target_only = @ \cup {mp2_prefix}]
        ELSE acc

\* the body of the loop with the second test reduced to `if mp1_prefix`, not
\* chained to the first: a matched source identifier is also source-only
OverlapStep_SourceAlways(acc, resource, metaprefix, target) ==
    LET mappings == get_mappings(resource)
        mp1_prefix == Get(mappings, metaprefix)
        mp2_prefix == Get(mappings, target)
        acc1 == IF Truthy(mp1_prefix) /\ Truthy(mp2_prefix)
                THEN [acc EXCEPT !.rv = Put(acc.rv, mp1_prefix, mp2_prefix)]
                ELSE acc
    IN  IF Truthy(mp1_prefix)
        THEN [acc1 EXCEPT !.source_only = @ \cup {mp1_prefix}]
        ELSE IF Truthy(mp2_prefix)
        THEN [acc1 EXCEPT !.target_only = @ \cup {mp2_prefix}]
        ELSE acc1

\* the body of the loop adding the source identifier in the third branch too
OverlapStep_TargetAsSource(acc, resource, metaprefix, target) ==
    LET mappings == get_mappings(resource)
        mp1_prefix == Get(mappings, metaprefix)
        mp2_prefix == Get(mappings, target)
    IN  IF Truthy(mp1_prefix) /\ Truthy(mp2_prefix)
        THEN [acc EXCEPT !.rv = Put(acc.rv, mp1_prefix, mp2_prefix)]
        ELSE IF Truthy(mp1_prefix) /\ ~Truthy(mp2_prefix)
        THEN [acc EXCEPT !.source_only = @ \cup {mp1_prefix}]
        ELSE IF ~Truthy(mp1_prefix) /\ Truthy(mp2_prefix)
        THEN [acc EXCEPT !.source_only = @ \cup {mp2_prefix}]
        ELSE acc

\* the body of the loop matching only across two different keys
OverlapStep_SelfExcluded(acc, resource, metaprefix, target) ==
    LET mappings == get_mappings(resource)
        mp1_prefix == Get(mappings, metaprefix)
        mp2_prefix == Get(mappings, target)
    IN  IF Truthy(mp1_prefix) /\ Truthy(mp2_prefix) /\ metaprefix /= target
        THEN [acc EXCEPT !.rv = Put(acc.rv, mp1_prefix, mp2_prefix)]
        ELSE IF Truthy(mp1_prefix) /\ ~Truthy(mp2_prefix)
        THEN [acc EXCEPT !.source_only = @ \cup {mp1_prefix}]
        ELSE IF ~Truthy(mp1_prefix) /\ Truthy(mp2_prefix)
        THEN [acc EXCEPT !.target_only = @ \cup {mp2_prefix}]
        ELSE acc

\* the body of the loop, for one resource
OverlapStep(acc, resource, metaprefix, target) ==
    LET mappings == get_mappings(resource)
        mp1_prefix == Get(mappings, metaprefix)
        mp2_prefix == Get(mappings, target)
    IN  IF Truthy(mp1_prefix) /\ Truthy(mp2_prefix)
        THEN [acc EXCEPT !.rv = Put(acc.rv, mp1_prefix, mp2_prefix)]
        ELSE IF Truthy(mp1_prefix) /\ ~Truthy(mp2_prefix)
        THEN [acc EXCEPT !.source_only = @ \cup {mp1_prefix}]
        ELSE IF ~Truthy(mp1_prefix) /\ Truthy(mp2_prefix)
        THEN [acc EXCEPT !.target_only = @ \cup {mp2_prefix}]
        ELSE acc

\* for resource in manager.registry.values(): from the i-th record on
RECURSIVE OverlapLoop(_, _, _, _)
OverlapLoop(acc, i, metaprefix, target) ==
    IF i > Len(registry) THEN acc
    ELSE OverlapLoop(OverlapStep(acc, registry[i], metaprefix, target),
                     i + 1, metaprefix, target)

\* MappingResponse(meta=MappingResponseMeta(...), mappings=rv)
MappingResponse(acc, metaprefix, target) ==
    [mappings |-> acc.rv,
     meta |-> [source_only |-> Sorted(acc.source_only),
               target_only |-> Sorted(acc.target_only),
               target |-> target,
               len_overlap |-> Cardinality(DOMAIN acc.rv),
               source |-> metaprefix,
               len_source_only |-> Cardinality(acc.source_only),
               len_target_only |-> Cardinality(acc.target_only)]]

\* the handler: an unknown key returns the pair (dict, 400) as its value
get_metaresource_external_mappings(metaprefix, target) ==
    IF metaprefix \notin metaregistry
    THEN Return(Pair([k \in {"bad source prefix"} |-> metaprefix], 400))
    ELSE IF target \notin metaregistry
    THEN Return(Pair([k \in {"bad target prefix"} |-> target], 400))
    ELSE Return(MappingResponse(OverlapLoop(OverlapStart, 1, metaprefix, target),
                                metaprefix, target))

GetMetaresourceExternalMappings(metaprefix, target) ==
    Request(Call("get_metaresource_external_mappings", <<metaprefix, target>>),
            get_metaresource_external_mappings(metaprefix, target))

\* the client asks for the overlap just answered the other way round
GetMetaresourceExternalMappingsSwapped ==
    /\ call.op = "get_metaresource_external_mappings"
    /\ FollowUp(Call("get_metaresource_external_mappings",
                     <<call.args[2], call.args[1]>>),
                get_metaresource_external_mappings(call.args[2], call.args[1]))

----------------------------------------------------------------------------
(* The specification of the overlap endpoint: every registry whose records *)
(* map to the external registries in any way.                              *)

DefaultResource(i, mappings) ==
    Resource(PrefixNames[i], mappings, None, <<>>, None)

InitOverlap ==
    /\ \E m \in [1..NumRecords -> MappingDicts] :
          registry = [i \in 1..NumRecords |-> DefaultResource(i, m[i])]
    /\ metaregistry = MetaKeys
    /\ collections = {}
    /\ call = NoCall
    /\ response = NoResponse
    /\ prev = NoPrev
    /\ NoFiles

NextOverlap ==
    \/ \E metaprefix \in KeyInputs, target \in KeyInputs :
          GetMetaresourceExternalMappings(metaprefix, target)
    \/ GetMetaresourceExternalMappingsSwapped

SpecOverlap == InitOverlap /\ [][NextOverlap]_vars

----------------------------------------------------------------------------
(* Content negotiation. *)

\* bioregistry.app.utils.FORMAT_MAP: the values of the format parameter
FORMAT_MAP ==
    [json |-> "application/json",
     yaml |-> "application/yaml",
     yml |-> "application/yaml",
     turtle |-> "text/turtle",
     jsonld |-> "application/ld+json"]

RDF_MEDIA_TYPES ==
    ("text/turtle" :> "turtle") @@ ("application/ld+json" :> "json-ld")
    @@ ("application/rdf+xml" :> "xml") @@ ("text/n3" :> "n3")

\* the Accept headers and format parameters a request may carry
AcceptInputs ==
    {None, "", "*/*", "application/json", "application/yaml", "text/turtle",
     "x-bioregistry-context", "text/html"}
FormatInputs ==
    {None, "", "json", "yaml", "yml", "turtle", "context", "bogus"}

\* _handle_formats without the test for "*/*"
_handle_formats_NoWildcard(accept, fmt) ==
    IF Truthy(fmt) /\ fmt \notin DOMAIN FORMAT_MAP
    THEN HTTPException(400, [fmt |-> fmt, text |-> "bad query parameter format"])
    ELSE LET fmt1 == IF Truthy(fmt) THEN FORMAT_MAP[fmt] ELSE fmt
         IN  IF Truthy(accept) /\ Truthy(fmt1)
             THEN IF accept /= fmt1
                  THEN HTTPException(400, [accept |-> accept,
                                           fmt |-> fmt1, text |-> "Mismatch between Accept header and format parameter"])
                  ELSE ReturnStr(accept)
             ELSE IF Truthy(accept) THEN ReturnStr(accept)
             ELSE IF Truthy(fmt1) THEN ReturnStr(fmt1)
             ELSE ReturnStr("application/json")

\* the media type to answer with, or the HTTPException raised
_handle_formats(accept, fmt) ==
    IF Truthy(fmt) /\ fmt \notin DOMAIN FORMAT_MAP
    THEN HTTPException(400, [fmt |-> fmt, text |-> "bad query parameter format"])
    ELSE LET fmt1 == IF Truthy(fmt) THEN FORMAT_MAP[fmt] ELSE fmt
             accept1 == IF accept = "*/*" THEN None ELSE accept
         IN  IF Truthy(accept1) /\ Truthy(fmt1)
             THEN IF accept1 /= fmt1
                  THEN HTTPException(400, [accept |-> accept1,
                                           fmt |-> fmt1, text |-> "Mismatch between Accept header and format parameter"])
                  ELSE ReturnStr(accept1)
             ELSE IF Truthy(accept1) THEN ReturnStr(accept1)
             ELSE IF Truthy(fmt1) THEN ReturnStr(fmt1)
             ELSE ReturnStr("application/json")

HandleFormats(accept, fmt) ==
    Request(Call("_handle_formats", <<accept, fmt>>), _handle_formats(accept, fmt))

\* YAMLResponse(content), JSONResponse(content), Response(content, media_type)
YAMLResponse(content) == [content |-> content, media_type |-> "application/yaml"]
JSONResponse(content) == [content |-> content, media_type |-> "application/json"]
Response(content, media_type) == [content |-> content, media_type |-> media_type]

\* bioregistry.schema.sanitize_mapping: the mapping as plain dicts
sanitize_mapping(mapping) == mapping

\* bioregistry.export.rdf_export: the RDF text of an object in a format
resource_to_rdf_str(resource, fmt) == [resource |-> resource, rdf |-> fmt]
metaresource_to_rdf_str(metaresource, fmt) == [registry |-> metaresource, rdf |-> fmt]
collection_to_rdf_str(collection, fmt) == [rdf |-> fmt, collection |-> collection]

----------------------------------------------------------------------------
(* The manager's lookups. *)

\* str.lower() on the prefixes a request may spell in upper case
UpperCase == [GO |-> "go", DOID |-> "doid"]
Lower(s) == IF s \in DOMAIN UpperCase THEN UpperCase[s] ELSE s

\* Manager.normalize_prefix: the canonical prefix a string names, or None
normalize_prefix(prefix) ==
    IF \E i \in 1..Len(registry) : registry[i].prefix = Lower(prefix)
    THEN Lower(prefix)
    ELSE None

\* Manager.get_resource: the record of a prefix, or None
manager_get_resource(prefix) ==
    LET norm_prefix == normalize_prefix(prefix)
    IN  IF norm_prefix = None THEN NoObject
        ELSE registry[CHOOSE i \in 1..Len(registry) : registry[i].prefix = norm_prefix]

\* Manager.rasterized_resource: a copy of the record with its fields filled in
rasterized_resource(resource) == resource

\* Manager.get_registry: the entry of an external registry, or None
get_registry(metaprefix) ==
    IF metaprefix \in metaregistry THEN [prefix |-> metaprefix] ELSE NoObject

\* Manager.get_registry_map: canonical prefix -> local identifier under a key
get_registry_map(metaprefix) ==
    LET having == {i \in 1..Len(registry) :
                      Truthy(Get(get_mappings(registry[i]), metaprefix))}
    IN  [p \in {registry[i].prefix : i \in having} |->
            LET i == CHOOSE j \in having : registry[j].prefix = p
            IN  get_mappings(registry[i])[metaprefix]]

\* manager.registry, manager.metaregistry and manager.collections as mappings
RegistryDict ==
    [p \in {registry[i].prefix : i \in 1..Len(registry)} |->
        registry[CHOOSE i \in 1..Len(registry) : registry[i].prefix = p]]
MetaregistryDict == [k \in metaregistry |-> get_registry(k)]
CollectionsDict == [c \in collections |-> [identifier |-> c]]

\* manager.contexts and manager.read_contributors()
Contexts == [obo |-> [name |-> "obo"]]
Contributors == [k \in {"0000-0003-4423-4370"} |-> [orcid |-> k]]

\* the prefixes, metaprefixes, collection and context identifiers of requests
PrefixInputs == Prefixes \cup {"GO", "nope"}
CollectionIds == {"0000001"}
CollectionInputs == CollectionIds \cup {"9999999"}
ContextInputs == DOMAIN Contexts \cup {"nocontext"}

----------------------------------------------------------------------------
(* The endpoints that negotiate their content type. *)

\* GET /api/registry
get_resources(accept, format) ==
    LET handled == _handle_formats(accept, format)
    IN  IF handled.kind = "raise" THEN handled
        ELSE IF handled.str = "application/json" THEN Return(RegistryDict)
        ELSE IF handled.str = "application/yaml"
        THEN Return(YAMLResponse(sanitize_mapping(RegistryDict)))
        ELSE IF handled.str \in DOMAIN RDF_MEDIA_TYPES THEN NotImplementedError
        ELSE HTTPException(400, [accept |-> handled.str, text |-> "Bad Accept header"])

GetResources(accept, format) ==
    Request(Call("get_resources", <<accept, format>>), get_resources(accept, format))

\* GET /api/registry/{prefix}
get_resource(prefix, accept, format) ==
    IF manager_get_resource(prefix) = NoObject
    THEN HTTPException(404, [prefix |-> prefix, text |-> "Prefix not found"])
    ELSE LET resource == rasterized_resource(manager_get_resource(prefix))
             handled == _handle_formats(accept, format)
         IN  IF handled.kind = "raise" THEN handled
             ELSE IF handled.str = "application/json" THEN Return(resource)
             ELSE IF handled.str = "application/yaml" \/ format \in {"yaml", "yml"}
             THEN Return(YAMLResponse(resource))
             ELSE IF handled.str \in DOMAIN RDF_MEDIA_TYPES
             THEN Return(Response(resource_to_rdf_str(resource, RDF_MEDIA_TYPES[handled.str]),
                                  handled.str))
             ELSE HTTPException(400, [accept |-> handled.str, text |-> "Bad Accept header"])

GetResource(prefix, accept, format) ==
    Request(Call("get_resource", <<prefix, accept, format>>),
            get_resource(prefix, accept, format))

\* GET /api/metaregistry
get_metaresources(accept, format) ==
    LET handled == _handle_formats(accept, format)
    IN  IF handled.kind = "raise" THEN handled
        ELSE IF handled.str = "application/json" THEN Return(MetaregistryDict)
        ELSE IF handled.str = "application/yaml"
        THEN Return(YAMLResponse(sanitize_mapping(MetaregistryDict)))
        ELSE IF handled.str \in DOMAIN RDF_MEDIA_TYPES THEN NotImplementedError
        ELSE HTTPException(400, [accept |-> handled.str, text |-> "Bad Accept header"])

GetMetaresources(accept, format) ==
    Request(Call("get_metaresources", <<accept, format>>),
            get_metaresources(accept, format))

\* GET /api/metaregistry/{metaprefix}
get_metaresource(metaprefix, accept, format) ==
    IF get_registry(metaprefix) = NoObject
    THEN HTTPException(404, [metaprefix |-> metaprefix, text |-> "Registry not found"])
    ELSE LET metaresource == get_registry(metaprefix)
             handled == _handle_formats(accept, format)
         IN  IF handled.kind = "raise" THEN handled
             ELSE IF handled.str = "application/json" THEN Return(metaresource)
             ELSE IF handled.str = "application/yaml"
             THEN Return(YAMLResponse(metaresource))
             ELSE IF handled.str \in DOMAIN RDF_MEDIA_TYPES
             THEN Return(Response(metaresource_to_rdf_str(metaresource,
                                                          RDF_MEDIA_TYPES[handled.str]),
                                  handled.str))
             ELSE HTTPException(400, [accept |-> handled.str, text |-> "Bad Accept header"])

GetMetaresource(metaprefix, accept, format) ==
    Request(Call("get_metaresource", <<metaprefix, accept, format>>),
            get_metaresource(metaprefix, accept, format))

\* GET /api/collection
get_collections(accept, format) ==
    LET handled == _handle_formats(accept, format)
    IN  IF handled.kind = "raise" THEN handled
        ELSE IF handled.str = "application/json" THEN Return(CollectionsDict)
        ELSE IF handled.str = "application/yaml"
        THEN Return(YAMLResponse(sanitize_mapping(CollectionsDict)))
        ELSE IF handled.str \in DOMAIN RDF_MEDIA_TYPES THEN NotImplementedError
        ELSE HTTPException(400, [accept |-> handled.str, text |-> "Bad Accept header"])

GetCollections(accept, format) ==
    Request(Call("get_collections", <<accept, format>>), get_collections(accept, format))

\* Collection.as_context_jsonld()
as_context_jsonld(collection) == [context_of |-> collection]

\* GET /api/collection/{identifier}
get_collection(identifier, accept, format) ==
    IF GetObject(CollectionsDict, identifier) = NoObject
    THEN HTTPException(404, [text |-> "Collection not found", identifier |-> identifier])
    ELSE LET collection == CollectionsDict[identifier]
         IN  IF accept = "x-bioregistry-context" \/ format = "context"
             THEN Return(JSONResponse(as_context_jsonld(collection)))
             ELSE LET handled == _handle_formats(accept, format)
                  IN  IF handled.kind = "raise" THEN handled
                      ELSE IF handled.str = "application/json" THEN Return(collection)
                      ELSE IF handled.str = "application/yaml"
                      THEN Return(YAMLResponse(collection))
                      ELSE IF handled.str \in DOMAIN RDF_MEDIA_TYPES
                      THEN Return(Response(collection_to_rdf_str(collection,
                                                                 RDF_MEDIA_TYPES[handled.str]),
                                           handled.str))
                      ELSE HTTPException(400, [accept |-> handled.str,
                                               text |-> "Bad Accept header"])

GetCollection(identifier, accept, format) ==
    Request(Call("get_collection", <<identifier, accept, format>>),
            get_collection(identifier, accept, format))

\* GET /api/context
get_contexts(accept, format) ==
    LET handled == _handle_formats(accept, format)
    IN  IF handled.kind = "raise" THEN handled
        ELSE IF handled.str = "application/json" THEN Return(Contexts)
        ELSE IF handled.str = "application/yaml"
        THEN Return(YAMLResponse(sanitize_mapping(Contexts)))
        ELSE HTTPException(400, [accept |-> handled.str, text |-> "Bad Accept header"])

GetContexts(accept, format) ==
    Request(Call("get_contexts", <<accept, format>>), get_contexts(accept, format))

\* GET /api/context/{identifier}
get_context(identifier) ==
    IF GetObject(Contexts, identifier) = NoObject
    THEN HTTPException(404, [text |-> "Context not found", identifier |-> identifier])
    ELSE Return(Contexts[identifier])

GetContext(identifier) ==
    Request(Call("get_context", <<identifier>>), get_context(identifier))

\* GET /api/contributors
get_contributors(accept, format) ==
    LET contributors == Contributors
        handled == _handle_formats(accept, format)
    IN  IF handled.kind = "raise" THEN handled
        ELSE IF handled.str = "application/json" THEN Return(contributors)
        ELSE IF handled.str = "application/yaml"
        THEN Return(YAMLResponse(sanitize_mapping(contributors)))
        ELSE HTTPException(400, [accept |-> handled.str, text |-> "Bad Accept header"])

GetContributors(accept, format) ==
    Request(Call("get_contributors", <<accept, format>>),
            get_contributors(accept, format))

----------------------------------------------------------------------------
(* The specification of content negotiation: one registry, every pair of  *)
(* an Accept header and a format parameter at every negotiating endpoint. *)

InitFormats ==
    /\ registry = [i \in 1..NumRecords |-> DefaultResource(i, EmptyDict)]
    /\ metaregistry = MetaKeys
    /\ collections = CollectionIds
    /\ call = NoCall
    /\ response = NoResponse
    /\ prev = NoPrev
    /\ NoFiles

NextFormats ==
    \E accept \in AcceptInputs, format \in FormatInputs :
        \/ HandleFormats(accept, format)
        \/ GetResources(accept, format)
        \/ \E prefix \in PrefixInputs : GetResource(prefix, accept, format)
        \/ GetMetaresources(accept, format)
        \/ \E metaprefix \in KeyInputs : GetMetaresource(metaprefix, accept, format)
        \/ GetCollections(accept, format)
        \/ \E identifier \in CollectionInputs : GetCollection(identifier, accept, format)
        \/ GetContexts(accept, format)
        \/ GetContributors(accept, format)

SpecFormats == InitFormats /\ [][NextFormats]_vars

----------------------------------------------------------------------------
(* GET /api/reference/{prefix}:{identifier} *)

\* the identifier patterns of the records, each with the identifiers of the
\* requests that it matches in full
Language == ("^[0-9]+$" :> {"4325"}) @@ ("^[a-z]+$" :> {"abc"})
Patterns == DOMAIN Language \cup {None}
IdentifierInputs == {"4325", "abc"}

\* the provider lists of the records
ProviderLists == {<<>>, <<"obofoundry">>, <<"obofoundry", "ols">>}

\* Resource.is_standardizable_identifier: no pattern accepts everything
is_standardizable_identifier(resource, identifier) ==
    IF resource.pattern = None THEN TRUE
    ELSE identifier \in Language[resource.pattern]

\* Resource.get_curie, Resource.get_pattern
get_curie(resource, identifier) == [prefix |-> resource.prefix, identifier |-> identifier]
get_pattern(resource) == resource.pattern

\* Manager.get_providers: provider name -> the URL of its template filled in
get_providers(prefix, identifier) ==
    LET resource == manager_get_resource(prefix)
    IN  [name \in {resource.providers[n] : n \in 1..Len(resource.providers)} |->
            [identifier |-> identifier, template_of |-> name]]

Reference(prefix, identifier) == [prefix |-> prefix, identifier |-> identifier]
IdentifierResponse(query, providers) == [providers |-> providers, query |-> query]

\* get_reference asking for the providers before it validates the identifier
get_reference_ProvidersFirst(prefix, identifier) ==
    LET resource == manager_get_resource(prefix)
    IN  IF resource = NoObject
        THEN HTTPException(404, [prefix |-> prefix, text |-> "invalid prefix"])
        ELSE IF DOMAIN get_providers(resource.prefix, identifier) = {}
        THEN HTTPException(404, [text |-> "no providers available for",
                                 curie |-> get_curie(resource, identifier)])
        ELSE IF ~is_standardizable_identifier(resource, identifier)
        THEN HTTPException(404, [pattern |-> get_pattern(resource),
                                 text |-> "invalid identifier",
                                 curie |-> get_curie(resource, identifier)])
        ELSE Return(IdentifierResponse(Reference(prefix, identifier),
                                       get_providers(resource.prefix, identifier)))

get_reference(prefix, identifier) ==
    LET resource == manager_get_resource(prefix)
    IN  IF resource = NoObject
        THEN HTTPException(404, [prefix |-> prefix, text |-> "invalid prefix"])
        ELSE IF ~is_standardizable_identifier(resource, identifier)
        THEN HTTPException(404, [pattern |-> get_pattern(resource),
                                 text |-> "invalid identifier",
                                 curie |-> get_curie(resource, identifier)])
        ELSE IF DOMAIN get_providers(resource.prefix, identifier) = {}
        THEN HTTPException(404, [text |-> "no providers available for",
                                 curie |-> get_curie(resource, identifier)])
        ELSE Return(IdentifierResponse(Reference(prefix, identifier),
                                       get_providers(resource.prefix, identifier)))

GetReference(prefix, identifier) ==
    Request(Call("get_reference", <<prefix, identifier>>),
            get_reference(prefix, identifier))

\* every registry whose records declare a pattern or none, and providers or none
InitReference ==
    /\ \E pat \in [1..NumRecords -> Patterns], prov \in [1..NumRecords -> ProviderLists] :
          registry = [i \in 1..NumRecords |->
                         Resource(PrefixNames[i], EmptyDict, pat[i], prov[i], None)]
    /\ metaregistry = MetaKeys
    /\ collections = CollectionIds
    /\ call = NoCall
    /\ response = NoResponse
    /\ prev = NoPrev
    /\ NoFiles

NextReference ==
    \E prefix \in PrefixInputs, identifier \in IdentifierInputs :
        GetReference(prefix, identifier)

SpecReference == InitReference /\ [][NextReference]_vars

----------------------------------------------------------------------------
(* GET /api/context.jsonld?prefix=...&prefix=... *)

\* the longest query string of a request, in symbols
MaxQueryLen == 4

\* A query value is a string, written here as the sequence of its symbols: a
\* comma, a space, or a run of other characters taken whole. No prefix of
\* the registry is the empty string, holds a space or is several runs.
Atoms == {"go", "DOID", ",", " "}
\* the query string "prefix=v1&prefix=v2...": the values with "&" between
QuerySymbols == Atoms \cup {"&"}
Queries == UNION {[1..n -> QuerySymbols] : n \in 0..MaxQueryLen}

\* str.split(sep) on a sequence of symbols: the list of the parts
RECURSIVE SplitOn(_, _)
SplitOn(str, sep) ==
    IF \A n \in 1..Len(str) : str[n] /= sep THEN <<str>>
    ELSE LET n == CHOOSE m \in 1..Len(str) :
                     str[m] = sep /\ \A k \in 1..(m - 1) : str[k] /= sep
         IN  <<SubSeq(str, 1, n - 1)>> \o SplitOn(SubSeq(str, n + 1, Len(str)), sep)

\* the List[str] that Query() hands the handler for a query string
QueryValues(query) == SplitOn(query, "&")

\* str.strip(): without the spaces at both ends
RECURSIVE Strip(_)
Strip(str) ==
    IF str = <<>> THEN str
    ELSE IF Head(str) = " " THEN Strip(Tail(str))
    ELSE IF str[Len(str)] = " " THEN Strip(SubSeq(str, 1, Len(str) - 1))
    ELSE str

\* the string of a token, as far as the registry tells strings apart
TokenText(token) ==
    IF token = <<>> THEN ""
    ELSE IF Len(token) = 1 THEN token[1]
    ELSE "(several runs)"

\* Manager.get_uri_prefix: the URI prefix of a canonical prefix, or None
get_uri_prefix(prefix) == manager_get_resource(prefix).uri_prefix

UriPrefixes ==
    [go |-> "http://purl.obolibrary.org/obo/GO_",
     doid |-> "http://purl.obolibrary.org/obo/DOID_",
     chebi |-> "http://purl.obolibrary.org/obo/CHEBI_",
     uberon |-> "http://purl.obolibrary.org/obo/UBERON_"]

\* the body of the inner loop without the call of strip()
ContextStep_NoStrip(prefix_map, token) ==
    LET prefix_ == normalize_prefix(TokenText(token))
    IN  IF prefix_ = None THEN prefix_map
        ELSE IF get_uri_prefix(prefix_) = None THEN prefix_map
        ELSE Put(prefix_map, prefix_, get_uri_prefix(prefix_))

\* the body of the inner loop, for one part of a value
ContextStep(prefix_map, token) ==
    LET prefix_ == normalize_prefix(TokenText(Strip(token)))
    IN  IF prefix_ = None THEN prefix_map
        ELSE IF get_uri_prefix(prefix_) = None THEN prefix_map
        ELSE Put(prefix_map, prefix_, get_uri_prefix(prefix_))

\* for prefix_ in value.split(","): from the i-th part on
RECURSIVE ContextInner(_, _, _)
ContextInner(prefix_map, tokens, i) ==
    IF i > Len(tokens) THEN prefix_map
    ELSE ContextInner(ContextStep(prefix_map, tokens[i]), tokens, i + 1)

\* for value in prefix: from the i-th value on
RECURSIVE ContextOuter(_, _, _)
ContextOuter(prefix_map, prefix, i) ==
    IF i > Len(prefix) THEN prefix_map
    ELSE ContextOuter(ContextInner(prefix_map, SplitOn(prefix[i], ","), 1),
                      prefix, i + 1)

generate_context_json_ld(prefix) ==
    Return(JSONResponse("@context" :> ContextOuter(EmptyDict, prefix, 1)))

\* a request for a context, with its list of values
ContextCall(prefix) ==
    [prefix |-> prefix, op |-> "generate_context_json_ld", args |-> <<>>]

GenerateContextJsonLd(query) ==
    Request(ContextCall(QueryValues(query)),
            generate_context_json_ld(QueryValues(query)))

\* ",".join(values)
RECURSIVE JoinComma(_)
JoinComma(values) ==
    IF Len(values) = 1 THEN values[1]
    ELSE values[1] \o <<",">> \o JoinComma(Tail(values))

\* the client asks again, with the values just sent joined into one
GenerateContextJsonLdJoined ==
    /\ call.op = "generate_context_json_ld"
    /\ Len(call.prefix) > 1
    /\ FollowUp(ContextCall(<<JoinComma(call.prefix)>>),
                generate_context_json_ld(<<JoinComma(call.prefix)>>))

\* every registry whose records have a URI prefix or none
InitContext ==
    /\ \E has \in [1..NumRecords -> BOOLEAN] :
          registry = [i \in 1..NumRecords |->
                         Resource(PrefixNames[i], EmptyDict, None, <<>>,
                                  IF has[i] THEN UriPrefixes[PrefixNames[i]] ELSE None)]
    /\ metaregistry = MetaKeys
    /\ collections = CollectionIds
    /\ call = NoCall
    /\ response = NoResponse
    /\ prev = NoPrev
    /\ NoFiles

\* one exchange per behaviour: a request, and the request derived from it
\* (a response depends on the snapshot and the request alone, so the
\* requests answered before add no state)
NextContext ==
    \/ /\ call = NoCall
       /\ \E query \in Queries : GenerateContextJsonLd(query)
    \/ GenerateContextJsonLdJoined

SpecContext == InitContext /\ [][NextContext]_vars

----------------------------------------------------------------------------
(* The endpoints that dump one external registry. *)

\* GET /api/metaregistry/{metaprefix}/registry_subset.json
get_external_registry_slim(metaprefix) ==
    LET mapped == {i \in 1..Len(registry) :
                      metaprefix \in DOMAIN get_mappings(registry[i])}
    IN  Return([p \in {registry[i].prefix : i \in mapped} |->
                   rasterized_resource(
                       registry[CHOOSE i \in mapped : registry[i].prefix = p])])

\* the same endpoint rasterizing the records in place: the mappings of every
\* record it returns are cut down to the key asked for
GetExternalRegistrySlim_InPlace(metaprefix) ==
    /\ call' = Call("get_external_registry_slim", <<metaprefix>>)
    /\ response' = get_external_registry_slim(metaprefix)
    /\ prev' = NoPrev
    /\ registry' = [i \in 1..Len(registry) |->
                       IF metaprefix \in DOMAIN registry[i].mappings
                       THEN [registry[i] EXCEPT
                                !.mappings = [k \in {metaprefix} |-> registry[i].mappings[k]]]
                       ELSE registry[i]]
    /\ UNCHANGED <<metaregistry, collections>>
    /\ UNCHANGED files

GetExternalRegistrySlim(metaprefix) ==
    Request(Call("get_external_registry_slim", <<metaprefix>>),
            get_external_registry_slim(metaprefix))

\* GET /api/metaregistry/{metaprefix}/mappings.json
get_metaresource_mappings(metaprefix) ==
    IF metaprefix \notin metaregistry
    THEN HTTPException(404, [metaprefix |-> metaprefix, text |-> "Invalid metaprefix"])
    ELSE Return(get_registry_map(metaprefix))

GetMetaresourceMappings(metaprefix) ==
    Request(Call("get_metaresource_mappings", <<metaprefix>>),
            get_metaresource_mappings(metaprefix))

----------------------------------------------------------------------------
(* The whole API: any sequence of requests to the endpoints above. *)

\* the handler of a request
Dispatch(c) ==
    CASE c.op = "_handle_formats" -> _handle_formats(c.args[1], c.args[2])
      [] c.op = "get_resources" -> get_resources(c.args[1], c.args[2])
      [] c.op = "get_resource" -> get_resource(c.args[1], c.args[2], c.args[3])
      [] c.op = "get_metaresources" -> get_metaresources(c.args[1], c.args[2])
      [] c.op = "get_metaresource" -> get_metaresource(c.args[1], c.args[2], c.args[3])
      [] c.op = "get_external_registry_slim" -> get_external_registry_slim(c.args[1])
      [] c.op = "get_metaresource_external_mappings" ->
            get_metaresource_external_mappings(c.args[1], c.args[2])
      [] c.op = "get_metaresource_mappings" -> get_metaresource_mappings(c.args[1])
      [] c.op = "get_collections" -> get_collections(c.args[1], c.args[2])
      [] c.op = "get_collection" -> get_collection(c.args[1], c.args[2], c.args[3])
      [] c.op = "get_contexts" -> get_contexts(c.args[1], c.args[2])
      [] c.op = "get_context" -> get_context(c.args[1])
      [] c.op = "get_contributors" -> get_contributors(c.args[1], c.args[2])
      [] c.op = "get_reference" -> get_reference(c.args[1], c.args[2])
      [] c.op = "generate_context_json_ld" -> generate_context_json_ld(c.prefix)

\* the client sends the request just answered once more
RepeatRequest ==
    /\ call /= NoCall
    /\ FollowUp(call, Dispatch(call))

\* the headers, parameters and query strings of the requests of Spec
SomeAccepts == {None, "application/yaml", "x-bioregistry-context"}
SomeFormats == {None, "json", "turtle"}
ShortQueries == {q \in Queries : Len(q) <= 2}

\* a registry whose records differ in pattern, providers and URI prefix, and
\* all map to the external registries in the same way, whichever it is
SampleResource(i, mappings) ==
    IF i % 2 = 1
    THEN Resource(PrefixNames[i], mappings, "^[0-9]+$", <<"obofoundry">>,
                  UriPrefixes[PrefixNames[i]])
    ELSE Resource(PrefixNames[i], mappings, None, <<>>, None)

Init ==
    /\ \E m \in MappingDicts :
          registry = [i \in 1..NumRecords |-> SampleResource(i, m)]
    /\ metaregistry = MetaKeys
    /\ collections = CollectionIds
    /\ call = NoCall
    /\ response = NoResponse
    /\ prev = NoPrev
    /\ NoFiles

Next ==
    \/ \E accept \in SomeAccepts, format \in SomeFormats :
          \/ HandleFormats(accept, format)
          \/ GetResources(accept, format)
          \/ \E prefix \in PrefixInputs : GetResource(prefix, accept, format)
          \/ GetMetaresources(accept, format)
          \/ \E metaprefix \in KeyInputs : GetMetaresource(metaprefix, accept, format)
          \/ GetCollections(accept, format)
          \/ \E identifier \in CollectionInputs : GetCollection(identifier, accept, format)
          \/ GetContexts(accept, format)
          \/ GetContributors(accept, format)
    \/ \E identifier \in ContextInputs : GetContext(identifier)
    \/ \E metaprefix \in KeyInputs : GetExternalRegistrySlim(metaprefix)
    \/ \E metaprefix \in KeyInputs : GetMetaresourceMappings(metaprefix)
    \/ \E metaprefix \in KeyInputs, target \in KeyInputs :
          GetMetaresourceExternalMappings(metaprefix, target)
    \/ \E prefix \in PrefixInputs, identifier \in IdentifierInputs :
          GetReference(prefix, identifier)
    \/ \E query \in ShortQueries : GenerateContextJsonLd(query)
    \/ RepeatRequest

Spec == Init /\ [][Next]_vars

----------------------------------------------------------------------------
(* The OBO Foundry importer: src/bioregistry/external/obofoundry.py.  The  *)
(* document at OBOFOUNDRY_URL is a list of ontology records; raw.yaml      *)
(* holds the document as downloaded, processed.json the JSON text written  *)
(* by json.dump.                                                           *)

\* the most ontology records in a downloaded document
MaxOntologies == 2

\* record["id"] of the ontologies, in the order Python sorts strings
OntologyIds == <<"GO", "doid">>
\* record["activity_status"]: the three values the importer knows, and one
\* it does not
ActivityStatuses == {"active", "inactive", "orphaned", "unknown"}

\* a product of an ontology; its id f"{stem}.{ext}" is the pair <<stem, ext>>
Purls == [json |-> "purl.json", obo |-> "purl.obo", owl |-> "purl.owl"]
Product(stem, ext) == [id |-> <<stem, ext>>, ontology_purl |-> Purls[ext]]

\* the optional keys of a record, absent (None) or present, in three shapes:
\* nothing but the required keys; an obsolete ontology with a repository
\* and no homepage; an ontology with every key and products of its own and
\* of another ontology
Details(id) ==
    <<[description |-> None, is_obsolete |-> FALSE, homepage |-> None,
       repository |-> None, preferredPrefix |-> None,
       license |-> [label |-> None, url |-> None],
       contact |-> [label |-> None, email |-> None, github |-> None],
       products |-> <<>>],
      [description |-> "An ontology", is_obsolete |-> TRUE, homepage |-> None,
       repository |-> "https://github.com/x", preferredPrefix |-> None,
       license |-> [label |-> "CC-BY", url |-> None],
       contact |-> [label |-> None, email |-> "a@example.org", github |-> None],
       products |-> <<Product(Lower(id), "owl")>>],
      [description |-> "An ontology", is_obsolete |-> FALSE,
       homepage |-> "https://example.org", repository |-> "https://github.com/x",
       preferredPrefix |-> id,
       license |-> [label |-> "CC0", url |-> "https://cc.org/0"],
       contact |-> [label |-> "A", email |-> "a@example.org", github |-> "a"],
       products |-> <<Product(Lower(id), "obo"), Product("other", "owl"),
                      Product(Lower(id), "json")>>]>>

\* one record of data["ontologies"]
OntologyRecord(id, activity_status, detail) ==
    [id |-> id, description |-> detail.description, is_obsolete |-> detail.is_obsolete,
     homepage |-> detail.homepage, repository |-> detail.repository,
     preferredPrefix |-> detail.preferredPrefix, license |-> detail.license,
     contact |-> detail.contact, products |-> detail.products,
     activity_status |-> activity_status, title |-> "Ontology"]

OntologyRecords ==
    UNION {{OntologyRecord(id, status, Details(id)[d]) :
               status \in ActivityStatuses, d \in 1..Len(Details(id))} :
           id \in {OntologyIds[n] : n \in 1..Len(OntologyIds)}}

\* the documents the download may fetch
Documents ==
    UNION {[1..n -> OntologyRecords] : n \in 0..MaxOntologies}

\* a function returned the boolean `bool`
ReturnBool(bool) == [kind |-> "return", bool |-> bool]
\* a function raised ValueError(f"unexpected activity value: {status}")
ValueError(status) == [kind |-> "raise", exc |-> "ValueError", status |-> status]

_parse_activity_status(record) ==
    LET status == record.activity_status
    IN  IF status = "inactive" THEN ReturnBool(TRUE)
        ELSE IF status = "active" THEN ReturnBool(FALSE)
        ELSE IF status = "orphaned" THEN ReturnBool(TRUE)
        ELSE ValueError(status)


\* the keys of a processed entry in the order sort_keys writes them; the
\* values of BoolKeys are booleans, the other values are strings
EntryKeys ==
    <<"contact", "contact.github", "contact.label", "deprecated",
      "description", "download.json", "download.obo", "download.owl",
      "homepage", "inactive", "license", "license.url", "name",
      "preferredPrefix", "repository">>
BoolKeys == {"deprecated", "inactive"}

\* one turn of the loop over record.get("products", [])
ProductStep(rv, product, oid) ==
    IF product.id = <<oid, "obo">>
    THEN Put(rv, "download.obo", product.ontology_purl)
    ELSE IF product.id = <<oid, "json">>
    THEN Put(rv, "download.json", product.ontology_purl)
    ELSE IF product.id = <<oid, "owl">>
    THEN Put(rv, "download.owl", product.ontology_purl)
    ELSE rv

RECURSIVE ProductLoop(_, _, _, _)
ProductLoop(rv, products, i, oid) ==
    IF i > Len(products) THEN rv
    ELSE ProductLoop(ProductStep(rv, products[i], oid), products, i + 1, oid)

\* _process(record): the entry of one ontology, or the exception of
\* _parse_activity_status
_process(record) ==
    LET oid == Lower(record.id)
        inactive == _parse_activity_status(record)
        strings ==
            [k \in {"name", "description", "homepage", "preferredPrefix",
                    "license", "license.url", "contact", "contact.label",
                    "contact.github", "repository"} |->
                CASE k = "name" -> record.title
                  [] k = "description" -> record.description
                  [] k = "homepage" -> IF Truthy(record.homepage)
                                       THEN record.homepage
                                       ELSE record.repository
                  [] k = "preferredPrefix" -> record.preferredPrefix
                  [] k = "license" -> record.license.label
                  [] k = "license.url" -> record.license.url
                  [] k = "contact" -> record.contact.email
                  [] k = "contact.label" -> record.contact.label
                  [] k = "contact.github" -> record.contact.github
                  [] k = "repository" -> record.repository]
        rv == ProductLoop(strings, record.products, 1, oid)
        kept == {k \in DOMAIN rv : rv[k] /= None}
    IN  IF inactive.kind = "raise" THEN inactive
        ELSE Return([k \in kept \cup BoolKeys |->
                        IF k = "deprecated" THEN record.is_obsolete
                        ELSE IF k = "inactive" THEN inactive.bool
                        ELSE rv[k]])

\* sorted(keys), the keys being among `order`
SortedKeys(keys, order) ==
    LET Among(k) == k \in keys
    IN  SelectSeq(order, Among)

\* json.dump of one value of an entry: true, false or a string
JsonMember(k, v) ==
    IF k \in BoolKeys
    THEN [json |-> IF v THEN "true" ELSE "false", name |-> k, chars |-> ""]
    ELSE [json |-> "string", name |-> k, chars |-> v]

\* the value json.load reads back from one member
JsonValue(member) ==
    IF member.json = "true" THEN TRUE
    ELSE IF member.json = "false" THEN FALSE
    ELSE member.chars

\* json.dump(rv, file, indent=2, sort_keys=True): the objects of the
\* ontologies in the order of their ids, each a list of members in the
\* order of their names
json_dump(rv) ==
    LET ids == SortedKeys(DOMAIN rv, OntologyIds)
    IN  [i \in 1..Len(ids) |->
            LET names == SortedKeys(DOMAIN rv[ids[i]], EntryKeys)
            IN  [key |-> ids[i],
                 members |-> [j \in 1..Len(names) |->
                                 JsonMember(names[j], rv[ids[i]][names[j]])]]]

\* json.load(file): a name written twice keeps its last value
RECURSIVE LoadMembers(_, _, _)
LoadMembers(acc, members, j) ==
    IF j > Len(members) THEN acc
    ELSE LoadMembers(Put(acc, members[j].name, JsonValue(members[j])),
                     members, j + 1)

RECURSIVE LoadObjects(_, _, _)
LoadObjects(acc, text, i) ==
    IF i > Len(text) THEN acc
    ELSE LoadObjects(Put(acc, text[i].key,
                         LoadMembers(EmptyDict, text[i].members, 1)),
                     text, i + 1)

json_load(text) == LoadObjects(EmptyDict, text, 1)

\* what a call leaves behind: its response, the two files, and the
\* downloads and writes it performed
Outcome(r, processed, raw, effects) ==
    [response |-> r, processed |-> processed, raw |-> raw, effects |-> effects]

\* {record["id"]: _process(record) for record in data["ontologies"]}: the
\* first exception ends the comprehension; a repeated id keeps its last entry
Comprehension(data) ==
    LET entries == [i \in 1..Len(data) |-> _process(data[i])]
        raised == {i \in 1..Len(data) : entries[i].kind = "raise"}
        Last(id) == CHOOSE i \in 1..Len(data) :
                        /\ data[i].id = id
                        /\ \A j \in 1..Len(data) : data[j].id = id => j <= i
    IN  IF raised /= {}
        THEN entries[CHOOSE i \in raised : \A j \in raised : i <= j]
        ELSE Return([id \in {data[i].id : i \in 1..Len(data)} |->
                        entries[Last(id)].value])

\* the importer opening processed.json for writing before it processes the
\* records
get_obofoundry_WriteFirst(force_download, data) ==
    IF PROCESSED_PATH.exists /\ ~force_download
    THEN Outcome(Return(json_load(PROCESSED_PATH.content)),
                 PROCESSED_PATH, RAW_PATH, <<>>)
    ELSE LET rv == Comprehension(data)
         IN  IF rv.kind = "raise"
             THEN Outcome(rv, File(<<>>), File(data), <<"download", "write">>)
             ELSE Outcome(rv, File(json_dump(rv.value)), File(data),
                          <<"download", "write">>)

\* get_obofoundry(force_download), `data` being the document at
\* OBOFOUNDRY_URL when download is called
get_obofoundry(force_download, data) ==
    IF PROCESSED_PATH.exists /\ ~force_download
    THEN Outcome(Return(json_load(PROCESSED_PATH.content)),
                 PROCESSED_PATH, RAW_PATH, <<>>)
    ELSE LET rv == Comprehension(data)
         IN  IF rv.kind = "raise"
             THEN Outcome(rv, PROCESSED_PATH, File(data), <<"download">>)
             ELSE Outcome(rv, File(json_dump(rv.value)), File(data),
                          <<"download", "write">>)

\* the call leaves its outcome; the registry snapshot is not touched
Leave(c, out, before) ==
    /\ call' = c
    /\ response' = out.response
    /\ prev' = before
    /\ PROCESSED_PATH' = out.processed
    /\ RAW_PATH' = out.raw
    /\ io' = out.effects
    /\ UNCHANGED snapshot

GetObofoundry(force_download, data) ==
    Leave(Call("get_obofoundry", <<force_download>>),
          get_obofoundry(force_download, data), NoPrev)

\* a call with force_download false, made right after a call that returned
GetObofoundryAgain(data) ==
    Leave(Call("get_obofoundry", <<FALSE>>),
          get_obofoundry(FALSE, data),
          [call |-> call, response |-> response])

\* the documents a call may meet at OBOFOUNDRY_URL: the URL is read only
\* when download is called
Downloadable(force_download) ==
    IF PROCESSED_PATH.exists /\ ~force_download THEN {<<>>} ELSE Documents

\* the documents an earlier run of the importer left processed
CachedDocuments ==
    <<<<>>,
      <<OntologyRecord("GO", "active", Details("GO")[1])>>,
      <<OntologyRecord("doid", "orphaned", Details("doid")[2]),
        OntologyRecord("GO", "inactive", Details("GO")[3])>>>>

\* no file yet, or the two files of an earlier run
InitObofoundry ==
    /\ registry = <<>>
    /\ metaregistry = {}
    /\ collections = {}
    /\ call = NoCall
    /\ response = NoResponse
    /\ prev = NoPrev
    /\ io = <<>>
    /\ \E n \in 0..Len(CachedDocuments) :
          IF n = 0
          THEN PROCESSED_PATH = NoFile /\ RAW_PATH = NoFile
          ELSE /\ PROCESSED_PATH =
                      File(json_dump(Comprehension(CachedDocuments[n]).value))
               /\ RAW_PATH = File(CachedDocuments[n])

\* a call, and the call that follows a call that returned (a call after an
\* exception meets the files as a first call does)
NextObofoundry ==
    \/ /\ call = NoCall
       /\ \E force_download \in BOOLEAN :
             \E data \in Downloadable(force_download) :
                GetObofoundry(force_download, data)
    \/ /\ call.op = "get_obofoundry"
       /\ prev = NoPrev
       /\ response.kind = "return"
       /\ \E data \in Downloadable(FALSE) : GetObofoundryAgain(data)

SpecObofoundry == InitObofoundry /\ [][NextObofoundry]_vars

----------------------------------------------------------------------------
(* What the claims about the overlap speak of: the records of the registry *)
(* seen from the keys of the request that was answered.                    *)

OverlapOp == "get_metaresource_external_mappings"

\* an overlap between two known keys was answered with a MappingResponse
OverlapAnswered ==
    /\ call.op = OverlapOp
    /\ call.args[1] \in metaregistry
    /\ call.args[2] \in metaregistry
    /\ response.kind = "return"

Records == 1..Len(registry)
\* record i has a local identifier under key k, and the identifier
Exposes(i, k) == k \in DOMAIN registry[i].mappings
LocalId(i, k) == registry[i].mappings[k]

InBoth(i, a, b) == Exposes(i, a) /\ Exposes(i, b)
OnlyIn(i, a, b) == Exposes(i, a) /\ ~Exposes(i, b)

\* the elements of a sorted list
Elements(seq) == {seq[n] : n \in 1..Len(seq)}

\* nothing appears in the answer to overlap(a, b) that no record gives
NothingElse(r, a, b) ==
    /\ \A x \in DOMAIN r.mappings :
          \E i \in Records : /\ InBoth(i, a, b)
                             /\ LocalId(i, a) = x
                             /\ LocalId(i, b) = r.mappings[x]
    /\ \A x \in Elements(r.meta.source_only) :
          \E i \in Records : OnlyIn(i, a, b) /\ LocalId(i, a) = x
    /\ \A x \in Elements(r.meta.target_only) :
          \E i \in Records : OnlyIn(i, b, a) /\ LocalId(i, b) = x

\* C1 as stated: every record with an identifier under both keys has its
\* pair source_local -> target_local in mappings, every record with one only
\* under source (target) has it in source_only (target_only), and nothing
\* else appears in the three.
C1_EveryPairInMappings ==
    OverlapAnswered =>
        LET a == call.args[1]
            b == call.args[2]
            r == response.value
        IN  /\ \A i \in Records :
                  /\ InBoth(i, a, b) =>
                        /\ LocalId(i, a) \in DOMAIN r.mappings
                        /\ r.mappings[LocalId(i, a)] = LocalId(i, b)
                  /\ OnlyIn(i, a, b) =>
                        LocalId(i, a) \in Elements(r.meta.source_only)
                  /\ OnlyIn(i, b, a) =>
                        LocalId(i, b) \in Elements(r.meta.target_only)
            /\ NothingElse(r, a, b)

\* C1, amended: mappings sends the source identifier of every record with
\* both to the target identifier of the LAST record (in registry order) that
\* has that source identifier and a target identifier; a record with an
\* identifier only under source (target) has it in source_only
\* (target_only); a record with neither adds nothing, and nothing else
\* appears in the three.
C1_LastPairInMappings ==
    OverlapAnswered =>
        LET a == call.args[1]
            b == call.args[2]
            r == response.value
            Last(x) == CHOOSE j \in Records :
                          /\ InBoth(j, a, b) /\ LocalId(j, a) = x
                          /\ \A k \in Records :
                                InBoth(k, a, b) /\ LocalId(k, a) = x => k <= j
        IN  /\ \A i \in Records :
                  /\ InBoth(i, a, b) =>
                        /\ LocalId(i, a) \in DOMAIN r.mappings
                        /\ r.mappings[LocalId(i, a)] = LocalId(Last(LocalId(i, a)), b)
                  /\ OnlyIn(i, a, b) =>
                        LocalId(i, a) \in Elements(r.meta.source_only)
                  /\ OnlyIn(i, b, a) =>
                        LocalId(i, b) \in Elements(r.meta.target_only)
            /\ NothingElse(r, a, b)

\* an overlap was answered for a registry where two records share their
\* source identifier and differ in their target identifier, and a third
\* case (an identifier under source only) is absent or present
C1_Witness ==
    /\ OverlapAnswered
    /\ call.args[1] /= call.args[2]
    /\ \E i, j \in Records :
          /\ i < j
          /\ InBoth(i, call.args[1], call.args[2])
          /\ InBoth(j, call.args[1], call.args[2])
          /\ LocalId(i, call.args[1]) = LocalId(j, call.args[1])
          /\ LocalId(i, call.args[2]) /= LocalId(j, call.args[2])

\* C2 as stated: an overlap request naming a key that is not in the
\* metaregistry fails with an error (the handler raises), so that the caller
\* is handed no value for it.
C2_UnknownKeyRaises ==
    (/\ call.op = OverlapOp
     /\ \/ call.args[1] \notin metaregistry
        \/ call.args[2] \notin metaregistry)
    => response.kind = "raise"

\* the overlap just answered is the swap of the one answered before it
SwapAnswered ==
    /\ OverlapAnswered
    /\ prev.call.op = OverlapOp
    /\ prev.response.kind = "return"
    /\ call.args = <<prev.call.args[2], prev.call.args[1]>>

\* two dicts are exact inverses of each other
Inverses(m, n) ==
    /\ \A x \in DOMAIN m : m[x] \in DOMAIN n /\ n[m[x]] = x
    /\ \A y \in DOMAIN n : n[y] \in DOMAIN m /\ m[n[y]] = y
    /\ Cardinality(DOMAIN m) = Cardinality(DOMAIN n)

\* the two lists of the answers swap roles
ListsSwapped(r, q) ==
    /\ r.meta.source_only = q.meta.target_only
    /\ r.meta.target_only = q.meta.source_only

\* among the records with an identifier under both keys, equal identifiers
\* under one key go with equal identifiers under the other
OneToOne(a, b) ==
    \A i, j \in Records :
        InBoth(i, a, b) /\ InBoth(j, a, b) =>
            (LocalId(i, a) = LocalId(j, a) <=> LocalId(i, b) = LocalId(j, b))

\* C3 as stated: the mappings of overlap(a, b) and of overlap(b, a) are exact
\* inverses with the same number of entries, and source_only and target_only
\* swap.
C3_SwapInverts ==
    SwapAnswered =>
        /\ Inverses(response.value.mappings, prev.response.value.mappings)
        /\ ListsSwapped(response.value, prev.response.value)

\* C3, amended: source_only and target_only of overlap(a, b) and overlap(b, a)
\* always swap; the mappings are exact inverses with the same number of
\* entries when no two records with identifiers under both keys share the
\* identifier under one key and differ under the other.
C3_SwapInvertsOneToOne ==
    SwapAnswered =>
        /\ ListsSwapped(response.value, prev.response.value)
        /\ OneToOne(call.args[1], call.args[2]) =>
              Inverses(response.value.mappings, prev.response.value.mappings)

\* the swap of an overlap with two matched pairs and different keys
C3_Witness ==
    /\ SwapAnswered
    /\ call.args[1] /= call.args[2]
    /\ OneToOne(call.args[1], call.args[2])
    /\ Cardinality(DOMAIN response.value.mappings) >= 2
    /\ \E x \in DOMAIN response.value.mappings : response.value.mappings[x] /= x

\* the records exposing a local identifier under key a
Exposing(a) == {i \in Records : Exposes(i, a)}

\* C4 as stated: len_overlap + len_source_only is the number of records
\* exposing a local identifier under the source key.
C4_SizesConserved ==
    OverlapAnswered =>
        response.value.meta.len_overlap + response.value.meta.len_source_only
            = Cardinality(Exposing(call.args[1]))

\* C4, amended: len_overlap + len_source_only is at most the number of
\* records exposing the source key, and equal to it when no two of them have
\* the same local identifier under the source key.
C4_SizesConservedDistinct ==
    OverlapAnswered =>
        LET a == call.args[1]
            sum == response.value.meta.len_overlap
                     + response.value.meta.len_source_only
        IN  /\ sum <= Cardinality(Exposing(a))
            /\ (\A i, j \in Exposing(a) : LocalId(i, a) = LocalId(j, a) => i = j)
                  => sum = Cardinality(Exposing(a))

\* an overlap with a matched pair and a source-only identifier, all distinct
C4_Witness ==
    /\ OverlapAnswered
    /\ call.args[1] /= call.args[2]
    /\ \A i, j \in Exposing(call.args[1]) :
          LocalId(i, call.args[1]) = LocalId(j, call.args[1]) => i = j
    /\ response.value.meta.len_overlap >= 1
    /\ response.value.meta.len_source_only >= 1

\* C5: overlap(a, a) for a known key a has mappings equal to the identity
\* over the local identifiers of the records exposing a, and empty
\* source_only and target_only.
C5_SelfOverlapIdentity ==
    (OverlapAnswered /\ call.args[1] = call.args[2]) =>
        LET a == call.args[1]
            ids == {LocalId(i, a) : i \in Exposing(a)}
        IN  /\ response.value.mappings = [x \in ids |-> x]
            /\ response.value.meta.source_only = <<>>
            /\ response.value.meta.target_only = <<>>
            /\ response.value.meta.len_source_only = 0
            /\ response.value.meta.len_target_only = 0

\* a self-overlap over two records with different identifiers, one record
\* also known to the other registry
C5_Witness ==
    /\ OverlapAnswered
    /\ call.args[1] = call.args[2]
    /\ Cardinality(DOMAIN response.value.mappings) >= 2
    /\ \E i \in Records : \E k \in MetaKeys : k /= call.args[1] /\ Exposes(i, k)

----------------------------------------------------------------------------
(* Content negotiation: what the claims speak of. *)

\* the endpoints that take an Accept header and a format parameter, and where
\* the two stand in the arguments of their requests
NegotiatingOps ==
    {"get_resources", "get_resource", "get_metaresources", "get_metaresource",
     "get_collections", "get_collection", "get_contexts", "get_contributors"}
AcceptOf(c) == c.args[Len(c.args) - 1]
FormatOf(c) == c.args[Len(c.args)]

\* a header or parameter that was sent and is not empty
Present(x) == x /= None /\ x /= ""

\* the request names one content type in its Accept header (not "*/*") and
\* another through its format parameter
HeaderAndFormatDisagree(c) ==
    /\ Present(AcceptOf(c))
    /\ AcceptOf(c) /= "*/*"
    /\ Present(FormatOf(c))
    /\ FormatOf(c) \in DOMAIN FORMAT_MAP
    /\ FORMAT_MAP[FormatOf(c)] /= AcceptOf(c)

\* C7 as stated: at every endpoint taking both an Accept header and a format
\* parameter, a request whose header and parameter name different content
\* types is answered with an error, never with a successful response.
C7_MismatchRejected ==
    (call.op \in NegotiatingOps /\ HeaderAndFormatDisagree(call))
        => response.kind = "raise"

\* C9: the decision table of _handle_formats(accept, fmt). A non-empty fmt
\* that is no key of FORMAT_MAP is a 400 whatever accept is; otherwise fmt
\* stands for FORMAT_MAP[fmt] and an accept of "*/*" for none; two values
\* present must be equal (else 400) and are the result; one value present is
\* the result; none present gives "application/json".
C9_DecisionTable ==
    call.op = "_handle_formats" =>
        LET accept == call.args[1]
            fmt == call.args[2]
            Is400 == /\ response.kind = "raise"
                     /\ response.exc = "HTTPException"
                     /\ response.status_code = 400
            Gives(v) == response.kind = "return" /\ response.str = v
        IN  IF Present(fmt) /\ fmt \notin DOMAIN FORMAT_MAP
            THEN Is400
            ELSE LET hasF == Present(fmt)
                     hasA == Present(accept) /\ accept /= "*/*"
                 IN  /\ hasA /\ hasF /\ accept = FORMAT_MAP[fmt] => Gives(accept)
                     /\ hasA /\ hasF /\ accept /= FORMAT_MAP[fmt] => Is400
                     /\ hasA /\ ~hasF => Gives(accept)
                     /\ ~hasA /\ hasF => Gives(FORMAT_MAP[fmt])
                     /\ ~hasA /\ ~hasF => Gives("application/json")

\* _handle_formats was called with "*/*" and a known format, and gave the
\* format's content type
C9_Witness ==
    /\ call.op = "_handle_formats"
    /\ call.args[1] = "*/*"
    /\ call.args[2] = "yml"
    /\ response = ReturnStr("application/yaml")

----------------------------------------------------------------------------
(* The reference lookup: what the claim speaks of. *)

\* the record a prefix names, if any
KnownPrefix(prefix) == \E i \in Records : registry[i].prefix = Lower(prefix)
RecordOf(prefix) == registry[CHOOSE i \in Records : registry[i].prefix = Lower(prefix)]

\* the first check of the three that a request fails, in the claimed order
FirstFailure(prefix, identifier) ==
    IF ~KnownPrefix(prefix) THEN "unknown prefix"
    ELSE IF /\ RecordOf(prefix).pattern /= None
            /\ identifier \notin Language[RecordOf(prefix).pattern]
    THEN "invalid identifier"
    ELSE IF RecordOf(prefix).providers = <<>> THEN "no providers"
    ELSE "none"

\* the request is answered with an HTTPException of this status and text
Raises(r, status_code, text) ==
    /\ r.kind = "raise"
    /\ r.exc = "HTTPException"
    /\ r.status_code = status_code
    /\ r.detail.text = text

\* the checks are made in order and a provider mapping is returned only
\* when all three pass
ChecksInOrder ==
    LET prefix == call.args[1]
        identifier == call.args[2]
        failure == FirstFailure(prefix, identifier)
    IN  /\ failure = "unknown prefix" => Raises(response, 404, "invalid prefix")
        /\ failure = "invalid identifier" => Raises(response, 404, "invalid identifier")
        /\ failure = "no providers" => Raises(response, 404, "no providers available for")
        /\ failure = "none" <=> response.kind = "return"
        /\ response.kind = "return" =>
              /\ response.value.query = [prefix |-> prefix, identifier |-> identifier]
              /\ DOMAIN response.value.providers /= {}
              /\ DOMAIN response.value.providers =
                    {RecordOf(prefix).providers[n] :
                        n \in 1..Len(RecordOf(prefix).providers)}

\* the kind of an error: the exception raised and its status code
ErrorKind(r) == <<r.exc, r.status_code>>

\* C6 as stated: get_reference checks the prefix, then the identifier, then
\* the providers, returns a provider mapping only when all three pass, and
\* reports the three failures as three different kinds of error.
C6_ThreeErrorKinds ==
    call.op = "get_reference" =>
        /\ ChecksInOrder
        /\ response.kind = "raise" =>
              \A prefix \in PrefixInputs, identifier \in IdentifierInputs :
                  LET other == get_reference(prefix, identifier)
                  IN  (/\ other.kind = "raise"
                       /\ FirstFailure(prefix, identifier)
                             /= FirstFailure(call.args[1], call.args[2]))
                      => ErrorKind(other) /= ErrorKind(response)

\* C6, amended: get_reference checks the prefix, then the identifier, then
\* the providers, and returns a provider mapping only when all three pass;
\* the three failures are all raised as HTTPException with status 404, and
\* differ only in the text of the detail ("invalid prefix", "invalid
\* identifier", "no providers available for").
C6_OneKindThreeDetails ==
    call.op = "get_reference" =>
        /\ ChecksInOrder
        /\ response.kind = "raise" =>
              /\ ErrorKind(response) = <<"HTTPException", 404>>
              /\ \A prefix \in PrefixInputs, identifier \in IdentifierInputs :
                    LET other == get_reference(prefix, identifier)
                    IN  other.kind = "raise" =>
                           /\ ErrorKind(other) = ErrorKind(response)
                           /\ (other.detail.text = response.detail.text
                                 <=> FirstFailure(prefix, identifier)
                                        = FirstFailure(call.args[1], call.args[2]))

\* an identifier that fails the pattern of a record without providers was
\* refused as invalid, in a registry where another request has no providers
C6_Witness ==
    /\ call.op = "get_reference"
    /\ KnownPrefix(call.args[1])
    /\ RecordOf(call.args[1]).providers = <<>>
    /\ Raises(response, 404, "invalid identifier")
    /\ \E prefix \in PrefixInputs, identifier \in IdentifierInputs :
          FirstFailure(prefix, identifier) = "no providers"

----------------------------------------------------------------------------
(* The snapshot under any sequence of requests. *)

----------------------------------------------------------------------------
(* The ad-hoc context: what the claim speaks of. *)

\* the parts of a value between its commas, as pairs of positions: each
\* starts at the start of the value or after a comma, ends at its end or
\* before a comma, and holds no comma
Parts(value) ==
    {ij \in (1..(Len(value) + 1)) \X (0..Len(value)) :
        /\ ij[1] <= ij[2] + 1
        /\ ij[1] = 1 \/ value[ij[1] - 1] = ","
        /\ ij[2] = Len(value) \/ value[ij[2] + 1] = ","
        /\ \A k \in ij[1]..ij[2] : value[k] /= ","}

\* a part without the whitespace around it
Trimmed(part) ==
    LET inked == {k \in 1..Len(part) : part[k] /= " "}
    IN  IF inked = {} THEN <<>>
        ELSE SubSeq(part, CHOOSE k \in inked : \A m \in inked : k <= m,
                          CHOOSE k \in inked : \A m \in inked : m <= k)

\* the tokens of a list of values
TokensOf(values) ==
    UNION {{Trimmed(SubSeq(values[n], ij[1], ij[2])) : ij \in Parts(values[n])} :
              n \in 1..Len(values)}

\* the tokens that name a record with a URI prefix, as canonical prefixes
NamedWithUri(values) ==
    {Lower(token[1]) : token \in {t \in TokensOf(values) :
                                     /\ Len(t) = 1
                                     /\ KnownPrefix(t[1])
                                     /\ RecordOf(t[1]).uri_prefix /= None}}

\* the map from normalized prefix to URI prefix over the tokens of the values
ContextOf(values) == [p \in NamedWithUri(values) |-> RecordOf(p).uri_prefix]

\* C10: the @context is the map from normalized prefix to URI prefix over the
\* tokens got by splitting every value on commas and stripping whitespace,
\* the tokens naming no prefix with a URI prefix being skipped without an
\* error; and the values sent as one comma-separated value give the same
\* response as the values sent as repeated parameters.
C10_ContextOfTokens ==
    call.op = "generate_context_json_ld" =>
        /\ response.kind = "return"
        /\ response.value.media_type = "application/json"
        /\ DOMAIN response.value.content = {"@context"}
        /\ response.value.content["@context"] = ContextOf(call.prefix)
        /\ (/\ prev.call.op = "generate_context_json_ld"
            /\ call.prefix = <<JoinComma(prev.call.prefix)>>)
           => response = prev.response

\* two repeated values, one in upper case and one with a space, were sent
\* again as one value, and the context holds both prefixes
C10_Witness ==
    /\ call.op = "generate_context_json_ld"
    /\ prev.call.op = "generate_context_json_ld"
    /\ Len(prev.call.prefix) = 2
    /\ Len(call.prefix) = 1
    /\ \E n \in 1..Len(call.prefix[1]) : call.prefix[1][n] = " "
    /\ response.kind = "return"
    /\ Cardinality(DOMAIN response.value.content["@context"]) = 2

----------------------------------------------------------------------------
(* The importer's cache: what the claim speaks of. *)

\* the call just answered was get_obofoundry(force)
Imported(c, force) == c = Call("get_obofoundry", <<force>>)

\* the mapping a processed file holds
Mapping(file) == json_load(file.content)

\* the statuses under which a record is processed
KnownStatuses == {"active", "inactive", "orphaned"}

\* the ids of a document, and the status of the last record with an id
IdsOf(data) == {data[i].id : i \in 1..Len(data)}
LastStatus(data, id) ==
    data[CHOOSE i \in 1..Len(data) :
            /\ data[i].id = id
            /\ \A j \in 1..Len(data) : data[j].id = id => j <= i].activity_status

\* one step of the importer, from the files before to the files after; the
\* document the step downloaded is what it left in raw.yaml
CacheStep ==
    LET force == call'.args[1]
        hit == PROCESSED_PATH.exists /\ ~force
        data == RAW_PATH'.content
        allKnown == \A i \in 1..Len(data) : data[i].activity_status \in KnownStatuses
    IN  /\ hit =>
              /\ response' = Return(Mapping(PROCESSED_PATH))
              /\ io' = <<>>
              /\ PROCESSED_PATH' = PROCESSED_PATH
              /\ RAW_PATH' = RAW_PATH
        /\ (~hit /\ allKnown) =>
              /\ io' = <<"download", "write">>
              /\ response'.kind = "return"
              /\ DOMAIN response'.value = IdsOf(data)
              /\ \A id \in IdsOf(data) :
                    response'.value[id].inactive
                        = (LastStatus(data, id) \in {"inactive", "orphaned"})
              /\ PROCESSED_PATH'.exists
        /\ (~hit /\ ~allKnown) =>
              /\ response'.kind = "raise"
              /\ PROCESSED_PATH' = PROCESSED_PATH
        /\ (/\ call.op = "get_obofoundry"
            /\ response.kind = "return"
            /\ io = <<"download", "write">>
            /\ ~force) =>
              /\ response'.kind = "return"
              /\ response'.value = response.value

\* C11: get_obofoundry is a cache over processed.json. A call that finds the
\* file and is not forced returns the mapping in the file, downloads nothing
\* and writes nothing. Any other call downloads; if every record has a known
\* activity status it returns an entry for every id and writes the file, and
\* a call without force right after it returns an equal mapping; if some
\* record has an unknown status it raises and leaves processed.json as it was.
C11_CacheOverProcessedFile == [][call'.op = "get_obofoundry" => CacheStep]_vars

\* a forced call downloaded, processed and wrote two ontologies, one of them
\* inactive and with a download; the call without force after it returned an
\* equal mapping from the file, with no download and no write
C11_Witness ==
    /\ Imported(prev.call, TRUE)
    /\ prev.response.kind = "return"
    /\ Imported(call, FALSE)
    /\ response = prev.response
    /\ io = <<>>
    /\ Cardinality(DOMAIN response.value) > 1
    /\ \E id \in DOMAIN response.value :
          /\ response.value[id].inactive
          /\ "download.owl" \in DOMAIN response.value[id]

====
